---- MODULE Spec2Model ----
(***************************************************************************)
(* A model of the device layer of concert: the Device lock and state       *)
(* parameter (concert/devices/base.py), the Motor and its calibrated       *)
(* position parameter (concert/devices/motors/base.py) and the Shutter     *)
(* with its TopoTomo driver (concert/devices/shutters).                    *)
(*                                                                         *)
(* One device is modelled at a time.  Four specifications share the        *)
(* variables:                                                              *)
(*   SpecLock     threads running "with device: body"                      *)
(*   SpecState    _set_state called with arbitrary labels                  *)
(*   SpecMotor    concurrent set_position calls on one motor               *)
(*   SpecShutter  construction of a shutter and concurrent open()/close()  *)
(***************************************************************************)
EXTENDS Integers, Sequences, FiniteSets

VARIABLES
    lock,       \* Device._lock: TRUE while the threading.Lock is held
    tpc,        \* SpecLock: position of each thread in "with device: body"
    texc,       \* SpecLock: the exception the body of the thread raised
    tout,       \* SpecLock: how the last with-statement of the thread ended
    kind,       \* the class of the device: "device", "shutter" or "motor"
    state,      \* the device's _state
    notes,      \* notifications delivered to the observers, oldest first
    arg,        \* SpecState: the label of the last _set_state call
    calib,      \* SpecMotor: the LinearCalibration, <<steps_per_unit, offset>>
    position,   \* SpecMotor: the position of the hardware, in steps
    jobs,       \* SpecMotor: the set_position calls, one record each
    driver,     \* SpecShutter: the class of the shutter, "base" or "topotomo"
    index,      \* SpecShutter: the index given to the constructor
    ctor,       \* SpecShutter: how far the constructor is
    opened,     \* SpecShutter: Shutter._opened
    hw,         \* SpecShutter: the commands sent to the hardware, oldest first
    ops,        \* SpecShutter: the open() and close() calls, one record each
    cx,         \* SpecCalib: the value the conversions start from
    cval,       \* SpecCalib: the value after the conversions applied so far
    cpath,      \* SpecCalib: the conversions applied so far
    moves,      \* SpecMove: the move() calls, one record each
    foc         \* SpecFocus: the Focuser and what it was given

lockVars == <<tpc, texc, tout>>
devVars == <<kind, state, notes, arg>>
motorVars == <<calib, position, jobs>>
shutterVars == <<driver, index, ctor, opened, hw, ops>>
calVars == <<cx, cval, cpath>>
restVars == <<cx, cval, cpath, moves, foc>>

------------------------------------------------------------------------------
(* Bounds *)

NThreads == 3
MaxNotes == 3
NJobs == 2
MaxPos == 2
NOps == 2
MaxNum == 3
MaxDen == 2

Threads == 1..NThreads
Jobs == 1..NJobs
Ops == 0..NOps
Movers == 1..2

\* The variables a specification does not use stay as they are here.
NoThreads ==
    /\ tpc = [t \in Threads |-> "idle"]
    /\ texc = [t \in Threads |-> "None"]
    /\ tout = [t \in Threads |-> "none"]

NoJob ==
    [pc |-> "idle", val |-> <<0, "mm">>, target |-> 0, asked |-> FALSE,
     block |-> FALSE, err |-> "None", ret |-> "no", wrote |-> FALSE]

NoMotor ==
    /\ calib = <<1, 0>>
    /\ position = 0
    /\ jobs = [j \in Jobs |-> NoJob]

NoOp ==
    [pc |-> "idle", op |-> "none", err |-> "None", ret |-> "no"]

NoShutter ==
    /\ driver = "base"
    /\ index = 0
    /\ ctor = "new"
    /\ opened = "None"
    /\ hw = <<>>
    /\ ops = [j \in Ops |-> NoOp]

NoCalib ==
    /\ cx = <<0, 1>>
    /\ cval = <<0, 1>>
    /\ cpath = <<>>

NoMove ==
    [pc |-> "idle", delta |-> 0, new |-> <<0, 1>>, target |-> 0, err |-> "None"]

NoMoves ==
    moves = [m \in Movers |-> NoMove]

NoFocus ==
    foc = [pc |-> "idle"]

NoRest ==
    /\ NoCalib
    /\ NoMoves
    /\ NoFocus

------------------------------------------------------------------------------
(* Device: the lock  (concert/devices/base.py) *)

None == "None"
NA == "n/a"

\* Device.__init__: self._lock = threading.Lock(); self._state = self.NA
Device__init__ ==
    /\ lock = FALSE
    /\ state = NA

\* Faulty variant: acquire() that does not block while the lock is held.
Device__enter__NoBlock ==
    lock' = TRUE

\* Device.__enter__: self._lock.acquire(), which blocks while the lock is held.
Device__enter__ ==
    /\ lock = FALSE
    /\ lock' = TRUE

\* Faulty variant: __exit__ that releases only when the body did not raise.
Device__exit__KeepsOnError(exc) ==
    lock' = (exc # None)

\* Device.__exit__(exc_type, exc_value, traceback): self._lock.release().
Device__exit__(exc) ==
    lock' = FALSE

\* The value __exit__ returns: None, which is false, so that the with
\* statement re-raises the exception of its body.
Device__exit__Suppresses == FALSE

\* with device: body, run by thread t.
WithEnter(t) ==
    /\ tpc[t] = "idle"
    /\ Device__enter__
    /\ tpc' = [tpc EXCEPT ![t] = "body"]
    /\ UNCHANGED <<texc, tout, devVars, motorVars, shutterVars, restVars>>

\* The protected body ends, normally or by raising.
WithBody(t) ==
    /\ tpc[t] = "body"
    /\ \E e \in {None, "Error"} :
          texc' = [texc EXCEPT ![t] = e]
    /\ tpc' = [tpc EXCEPT ![t] = "leaving"]
    /\ UNCHANGED <<lock, tout, devVars, motorVars, shutterVars, restVars>>

WithExit(t) ==
    /\ tpc[t] = "leaving"
    /\ Device__exit__(texc[t])
    /\ tout' = [tout EXCEPT ![t] =
                  IF texc[t] # None /\ ~Device__exit__Suppresses
                  THEN "raised" ELSE "returned"]
    /\ tpc' = [tpc EXCEPT ![t] = "idle"]
    /\ UNCHANGED <<texc, devVars, motorVars, shutterVars, restVars>>

InitLock ==
    /\ kind = "device"
    /\ Device__init__
    /\ notes = <<>>
    /\ arg = None
    /\ NoThreads
    /\ NoMotor
    /\ NoShutter
    /\ NoRest

NextLock ==
    \E t \in Threads :
        \/ WithEnter(t)
        \/ WithBody(t)
        \/ WithExit(t)

vars == <<lock, tpc, texc, tout, kind, state, notes, arg, calib, position, jobs,
          driver, index, ctor, opened, hw, ops, cx, cval, cpath, moves, foc>>

SpecLock == InitLock /\ [][NextLock]_vars

------------------------------------------------------------------------------
(* C2 *)

Inside == {t \in Threads : tpc[t] \in {"body", "leaving"}}

\* C2: the critical section is exclusive and the lock is held exactly while a
\* thread is inside it, so it is free whenever no thread is inside, also after
\* bodies that raised; and a with statement ends by raising exactly when its
\* body raised (texc keeps what the last body of the thread did).
C2_ScopedAcquisition ==
    /\ Cardinality(Inside) <= 1
    /\ lock <=> (Inside # {})
    /\ \A t \in Threads :
          (tpc[t] = "idle" /\ tout[t] # "none") =>
              tout[t] = (IF texc[t] = "Error" THEN "raised" ELSE "returned")

\* A thread has left a section whose body raised, another thread is inside.
C2_Witness ==
    \E t, u \in Threads :
        /\ tpc[t] = "idle" /\ tout[t] = "raised"
        /\ tpc[u] = "body" /\ tout[u] = "raised"
        /\ lock

------------------------------------------------------------------------------
(* Device, Shutter, Motor: the state parameter *)

OPEN == "open"
CLOSED == "closed"
STANDBY == "standby"
MOVING == "moving"
LIMIT == "limit"

\* Device.__init__: self._states = set([self.NA])
Device_states == {NA}

\* Shutter.__init__: self._states = self._states.union(set([OPEN, CLOSED]))
Shutter_states == Device_states \cup {OPEN, CLOSED}

\* class MotorState(State): STANDBY, MOVING
MotorState == {STANDBY, MOVING}

\* The label set of a Motor: the labels of MotorState, with the limit label
\* and the inherited n/a of the Device a Motor is.
Motor_states == Device_states \cup MotorState \cup {LIMIT}

States ==
    CASE kind = "device" -> Device_states
      [] kind = "shutter" -> Shutter_states
      [] kind = "motor" -> Motor_states

\* Shutter.__init__: super().__init__(), then self._state = self.NA
Shutter__init__ ==
    /\ Device__init__
    /\ state = NA

\* Motor.__init__: self._state = None
Motor__init__ ==
    /\ lock = FALSE
    /\ state = None

\* Parameter.notify() and ConcertObject.send(): the current value goes to the
\* observers.  by is the operation that caused it (0: none).
Notify(name, value, by) ==
    notes' = Append(notes, <<name, value, by>>)

\* Faulty variant: _set_state without the membership test.
Device_set_stateUnchecked(s, by) ==
    /\ state' = s
    /\ Notify("state", state', by)

\* Device._set_state(state): a known label is stored and notified, an unknown
\* one is logged (log.warn) and nothing else happens.
Device_set_state(s, by) ==
    IF s \in States
    THEN /\ state' = s
         /\ Notify("state", state', by)
    ELSE UNCHANGED <<state, notes>>

\* Faulty variant: the state is sent but not stored.
Motor_set_stateNotStored(s, by) ==
    /\ state' = state
    /\ Notify("state", state', by)

\* Faulty variant: the state is stored but not sent.
Motor_set_stateNotSent(s, by) ==
    /\ state' = s
    /\ notes' = notes

\* Motor._set_state(state): self._state = state; self.send(self._state)
Motor_set_state(s, by) ==
    /\ state' = s
    /\ Notify("state", state', by)

Labels == {NA, OPEN, CLOSED, STANDBY, MOVING, LIMIT, "bogus"}

\* device._set_state(label), with any label.
SetState(label) ==
    /\ Len(notes) < MaxNotes
    /\ arg' = label
    /\ IF kind = "motor"
       THEN Motor_set_state(label, 0)
       ELSE Device_set_state(label, 0)
    /\ UNCHANGED <<lock, kind, lockVars, motorVars, shutterVars, restVars>>

InitState ==
    /\ kind \in {"device", "shutter", "motor"}
    /\ CASE kind = "device" -> Device__init__
         [] kind = "shutter" -> Shutter__init__
         [] kind = "motor" -> Motor__init__
    /\ notes = <<>>
    /\ arg = None
    /\ NoThreads
    /\ NoMotor
    /\ NoShutter
    /\ NoRest

NextState ==
    \E label \in Labels : SetState(label)

SpecState == InitState /\ [][NextState]_vars

------------------------------------------------------------------------------
(* C3, C4 *)

\* C3: the state of a device (a Device, a Shutter, a Motor) is always one of
\* the labels of its declared state set.
C3_StateInDeclaredSet ==
    state \in States

\* C3, for the classes whose _set_state is Device._set_state.
C3_DeviceStateInDeclaredSet ==
    kind \in {"device", "shutter"} => state \in States

\* C4: Device._set_state with a label of the declared set stores the label and
\* then sends exactly one notification, which carries the new state; with any
\* other label the state and the notifications stay as they were.  No step of
\* _set_state raises: the call is one step that always completes.
C4_SetStateKnownOrIgnored ==
    [][(kind \in {"device", "shutter"}) =>
          (IF arg' \in States
           THEN state' = arg' /\ notes' = Append(notes, <<"state", arg', 0>>)
           ELSE state' = state /\ notes' = notes)]_vars

\* An unknown label was passed to a shutter that had been opened: it is open.
C4_Witness ==
    /\ kind = "shutter"
    /\ arg = "bogus"
    /\ state = OPEN
    /\ notes = <<<<"state", OPEN, 0>>>>

------------------------------------------------------------------------------
(* Motor: set_position  (concert/devices/motors/base.py) *)

\* The calibrations, limits and positions the motor is tried with.
Scales == {1, 2}
Offsets == {0, 1}
HardLimits == <<-3, 3>>
SoftLimits == <<-4, 4>>
Values == {<<m, "mm">> : m \in {-MaxPos, 0, MaxPos}} \cup {<<1, "s">>}

\* LinearCalibration.to_steps(value): (value + self._offset) * self._steps_per_unit
to_steps(value) ==
    (value[1] + calib[2]) * calib[1]

\* The sum of a position and a quantity of another dimension raises ValueError.
to_stepsRaises(value) ==
    value[2] # "mm"

\* The limiter given to Motor.__init__, a predicate on the value it is called
\* with (DummyLimiter(lo, hi) of the tests).
limiter(value) ==
    SoftLimits[1] <= value /\ value <= SoftLimits[2]

\* Motor.hard_position_limit_reached(), of the driver: the position asked for
\* lies beyond the travel range.
hard_position_limit_reached(target) ==
    target < HardLimits[1] \/ target > HardLimits[2]

\* The position the hardware takes when it is sent to target.
Clamp(target) ==
    IF target < HardLimits[1] THEN HardLimits[1]
    ELSE IF target > HardLimits[2] THEN HardLimits[2]
    ELSE target

Fail(j, error) ==
    jobs' = [jobs EXCEPT ![j].pc = "failed", ![j].err = error]

\* Parameterizable.set(name, value, blocking): the set of the parameter is
\* handed to a background worker; a non-blocking caller has its handle at once.
Parameterizable_set(j, value, blocking) ==
    [jobs[j] EXCEPT !.pc = "queued", !.val = value, !.block = blocking,
                    !.ret = IF blocking THEN "no" ELSE "handle"]

\* Faulty variant: the blocking argument is not passed on.
Motor_set_positionNeverBlocks(j, value, blocking) ==
    /\ jobs[j].pc = "idle"
    /\ jobs' = [jobs EXCEPT ![j] =
                  [Parameterizable_set(j, value, FALSE) EXCEPT !.asked = blocking]]
    /\ UNCHANGED <<lock, calib, position, devVars, lockVars, shutterVars, restVars>>

\* Motor.set_position(position, blocking):
\*     return self.set('position', position, blocking)
Motor_set_position(j, value, blocking) ==
    /\ jobs[j].pc = "idle"
    /\ jobs' = [jobs EXCEPT ![j] =
                  [Parameterizable_set(j, value, blocking) EXCEPT !.asked = blocking]]
    /\ UNCHANGED <<lock, calib, position, devVars, lockVars, shutterVars, restVars>>

\* Parameter.set(value): LimitError when the limiter rejects the value,
\* otherwise the setter is called with it.
Parameter_set(j, value) ==
    IF ~limiter(value)
    THEN Fail(j, "LimitError")
    ELSE jobs' = [jobs EXCEPT ![j].pc = "setter", ![j].target = value]

\* Faulty variant: the setter is called directly, not through Parameter.set.
CalibratedParameter_setNoLimiter(j) ==
    /\ jobs[j].pc = "queued"
    /\ IF to_stepsRaises(jobs[j].val)
       THEN Fail(j, "UnitError")
       ELSE jobs' = [jobs EXCEPT ![j].pc = "setter",
                                 ![j].target = to_steps(jobs[j].val)]
    /\ UNCHANGED <<lock, calib, position, devVars, lockVars, shutterVars, restVars>>

\* CalibratedParameter.set(value), on the worker:
\*     try: calibrated = self._calibration.to_steps(value)
\*          super().set(calibrated)
\*     except ValueError: raise UnitError
CalibratedParameter_set(j) ==
    /\ jobs[j].pc = "queued"
    /\ IF to_stepsRaises(jobs[j].val)
       THEN Fail(j, "UnitError")
       ELSE Parameter_set(j, to_steps(jobs[j].val))
    /\ UNCHANGED <<lock, calib, position, devVars, lockVars, shutterVars, restVars>>

\* The setter runs under the lock of the device.
SetterAcquire(j) ==
    /\ jobs[j].pc = "setter"
    /\ Device__enter__
    /\ jobs' = [jobs EXCEPT ![j].pc = "locked"]
    /\ UNCHANGED <<calib, position, devVars, lockVars, shutterVars, restVars>>

\* 1. Transition to moving.
SetterMoving(j) ==
    /\ jobs[j].pc = "locked"
    /\ Motor_set_state(MOVING, j)
    /\ jobs' = [jobs EXCEPT ![j].pc = "moving"]
    /\ UNCHANGED <<lock, kind, arg, calib, position, lockVars, shutterVars, restVars>>

\* 2. The raw setter of the driver, Motor._set_position(position), is entered ...
RawSetEnter(j) ==
    /\ jobs[j].pc = "moving"
    /\ jobs' = [jobs EXCEPT ![j].pc = "raw", ![j].wrote = TRUE]
    /\ UNCHANGED <<lock, calib, position, devVars, lockVars, shutterVars, restVars>>

\* ... and left, with the hardware moved.
RawSetExit(j) ==
    /\ jobs[j].pc = "raw"
    /\ position' = Clamp(jobs[j].target)
    /\ jobs' = [jobs EXCEPT ![j].pc = "written"]
    /\ UNCHANGED <<lock, calib, devVars, lockVars, shutterVars, restVars>>

\* 3. At a hard limit: transition to limit, and HardlimitError.
\* 4. Otherwise: transition to standby.
SetterSettle(j) ==
    /\ jobs[j].pc = "written"
    /\ IF hard_position_limit_reached(jobs[j].target)
       THEN /\ Motor_set_state(LIMIT, j)
            /\ jobs' = [jobs EXCEPT ![j].pc = "settled",
                                    ![j].err = "HardlimitError"]
       ELSE /\ Motor_set_state(STANDBY, j)
            /\ jobs' = [jobs EXCEPT ![j].pc = "settled"]
    /\ UNCHANGED <<lock, kind, arg, calib, position, lockVars, shutterVars, restVars>>

\* The lock is released, on the way out of a setter that raised too.
SetterRelease(j) ==
    /\ jobs[j].pc = "settled"
    /\ Device__exit__(jobs[j].err)
    /\ jobs' = [jobs EXCEPT ![j].pc =
                  IF jobs[j].err # None THEN "failed" ELSE "notify"]
    /\ UNCHANGED <<calib, position, devVars, lockVars, shutterVars, restVars>>

\* Parameter.set, after the setter returned: the observers of the parameter
\* are notified of the value.
ParameterNotify(j) ==
    /\ jobs[j].pc = "notify"
    /\ Notify("position", jobs[j].target, j)
    /\ jobs' = [jobs EXCEPT ![j].pc = "done"]
    /\ UNCHANGED <<lock, kind, state, arg, calib, position, lockVars, shutterVars, restVars>>

Finished(j) == jobs[j].pc \in {"done", "failed"}

\* A blocking set returns to its caller, or raises, once the worker is finished.
BlockingReturn(j) ==
    /\ jobs[j].ret = "no"
    /\ jobs[j].block
    /\ Finished(j)
    /\ jobs' = [jobs EXCEPT ![j].ret =
                  IF jobs[j].pc = "failed" THEN "raised" ELSE "returned"]
    /\ UNCHANGED <<lock, calib, position, devVars, lockVars, shutterVars, restVars>>

\* wait() on the handle of a non-blocking set.
HandleWait(j) ==
    /\ jobs[j].ret = "handle"
    /\ Finished(j)
    /\ jobs' = [jobs EXCEPT ![j].ret =
                  IF jobs[j].pc = "failed" THEN "wait raised" ELSE "waited"]
    /\ UNCHANGED <<lock, calib, position, devVars, lockVars, shutterVars, restVars>>

InitMotor ==
    /\ kind = "motor"
    /\ Motor__init__
    /\ notes = <<>>
    /\ arg = None
    /\ NoThreads
    /\ calib \in Scales \X Offsets
    /\ position = 0
    /\ jobs = [j \in Jobs |-> NoJob]
    /\ NoShutter
    /\ NoRest

NextMotor ==
    \E j \in Jobs :
        \/ \E value \in Values, blocking \in BOOLEAN :
              Motor_set_position(j, value, blocking)
        \/ CalibratedParameter_set(j)
        \/ SetterAcquire(j)
        \/ SetterMoving(j)
        \/ RawSetEnter(j)
        \/ RawSetExit(j)
        \/ SetterSettle(j)
        \/ SetterRelease(j)
        \/ ParameterNotify(j)
        \/ BlockingReturn(j)
        \/ HandleWait(j)

SpecMotor == InitMotor /\ [][NextMotor]_vars

------------------------------------------------------------------------------
(* C1, C5, C6, C7, C10 *)

InRawSetter == {j \in Jobs : jobs[j].pc = "raw"}

StateNotes == SelectSeq(notes, LAMBDA n : n[1] = "state")

C7_BlockingReturnsAfterNonBlockingAtOnce ==
    \A j \in Jobs :
        /\ (jobs[j].pc # "idle" /\ ~jobs[j].asked) => jobs[j].ret # "no"
        /\ (jobs[j].pc # "idle" /\ jobs[j].asked /\ ~Finished(j)) => jobs[j].ret = "no"
        /\ (jobs[j].asked /\ jobs[j].ret # "no") =>
              jobs[j].ret = (IF jobs[j].pc = "failed" THEN "raised" ELSE "returned")

\* A non-blocking caller holds its handle while its set is in the raw setter;
\* a blocking caller has returned from a completed set.
C7_Witness ==
    \E j, k \in Jobs :
        /\ ~jobs[j].asked /\ jobs[j].pc = "raw" /\ jobs[j].ret = "handle"
        /\ jobs[k].asked /\ jobs[k].pc = "done" /\ jobs[k].ret = "returned"

Rejected(j) ==
    /\ jobs[j].pc \notin {"idle", "queued"}
    /\ ~to_stepsRaises(jobs[j].val)
    /\ ~limiter(to_steps(jobs[j].val))

C10_Refused ==
    \A j \in Jobs :
        Rejected(j) =>
            /\ jobs[j].pc = "failed"
            /\ jobs[j].err = "LimitError"
            /\ ~jobs[j].wrote
            /\ \A i \in 1..Len(notes) : notes[i][3] # j

C10_RefusalChangesNothing ==
    \A j \in Jobs :
        (~Rejected(j) /\ Rejected(j)') =>
            /\ position' = position
            /\ state' = state
            /\ notes' = notes
            /\ lock' = lock

\* C10: a set whose candidate value (the calibrated value, which is what the
\* limiter is called with) the limiter rejects fails with LimitError
\* without the setter being invoked and without any notification, and the
\* step that refuses it leaves position, state and notifications as they were.
C10_LimiterRejectionIsInert ==
    []C10_Refused /\ [][C10_RefusalChangesNothing]_vars

\* A set was refused by the limiter after another set had moved the motor.
C10_Witness ==
    \E j, k \in Jobs :
        /\ jobs[j].err = "LimitError"
        /\ jobs[k].pc = "done"
        /\ position # 0

------------------------------------------------------------------------------
(* C16, C17 *)

MotorEdges ==
    {<<STANDBY, MOVING>>, <<MOVING, STANDBY>>, <<MOVING, LIMIT>>, <<LIMIT, MOVING>>}

\* C16: the state of a Motor changes only along standby -> moving,
\* moving -> standby, moving -> limit and limit -> moving.
C16_StateChangesAlongEdges ==
    [][(state' # state) => (<<state, state'>> \in MotorEdges)]_vars

\* C16, from the first transition on: once the state is one of the labels of
\* the motion it changes only along the four edges.
C16_EdgesAfterFirstMove ==
    [][(state' # state /\ state # None) => (<<state, state'>> \in MotorEdges)]_vars

\* C17: a set of the position with a value of the right unit is accepted
\* exactly when the limiter holds for the value in user units.
C17_LimiterOnUserValue ==
    \A j \in Jobs :
        (jobs[j].pc \notin {"idle", "queued"} /\ ~to_stepsRaises(jobs[j].val)) =>
            ((jobs[j].err # "LimitError") <=> limiter(jobs[j].val[1]))

------------------------------------------------------------------------------
(* Shutter  (concert/devices/shutters/base.py, topotomo.py) *)

Indices == -1..3
OtherVars == <<lock, devVars, lockVars, motorVars>>

\* @async: the body is scheduled on a background worker and the caller gets
\* a handle at once.
Async(method) ==
    [pc |-> "scheduled", op |-> method, err |-> None, ret |-> "handle"]

\* topotomo.Shutter.__init__(index):
\*     if index < 0 or index > 2: raise ValueError
\*     super().__init__(); self._opened = None; self.close().wait()
\* base.Shutter.__init__() ends with the Device initialised.
ShutterConstruct ==
    /\ ctor = "new"
    /\ IF driver = "base"
       THEN /\ ctor' = "constructed"
            /\ UNCHANGED <<opened, ops>>
       ELSE IF index < 0 \/ index > 2
       THEN /\ ctor' = "ValueError"
            /\ UNCHANGED <<opened, ops>>
       ELSE /\ opened' = None
            /\ ops' = [ops EXCEPT ![0] = Async("close")]
            /\ ctor' = "waiting"
    /\ UNCHANGED <<driver, index, hw, OtherVars, restVars>>

\* Faulty variant: the method runs in the caller, which gets no handle.
Shutter_openNotAsync(j) ==
    /\ ctor = "constructed"
    /\ ops[j].pc = "idle"
    /\ ops' = [ops EXCEPT ![j] = [Async("open") EXCEPT !.ret = "no"]]
    /\ UNCHANGED <<driver, index, ctor, opened, hw, OtherVars, restVars>>

\* @async def open(self): self._open()
Shutter_open(j) ==
    /\ ctor = "constructed"
    /\ ops[j].pc = "idle"
    /\ ops' = [ops EXCEPT ![j] = Async("open")]
    /\ UNCHANGED <<driver, index, ctor, opened, hw, OtherVars, restVars>>

\* @async def close(self): self._close()
Shutter_close(j) ==
    /\ ctor = "constructed"
    /\ ops[j].pc = "idle"
    /\ ops' = [ops EXCEPT ![j] = Async("close")]
    /\ UNCHANGED <<driver, index, ctor, opened, hw, OtherVars, restVars>>

\* base.Shutter._open, _close: raise NotImplementedError
Shutter_openNotImplemented(j) ==
    /\ driver = "base"
    /\ ops[j].pc = "scheduled"
    /\ ops' = [ops EXCEPT ![j].pc = "failed", ![j].err = "NotImplementedError"]
    /\ UNCHANGED <<driver, index, ctor, opened, hw, OtherVars, restVars>>

Command(j) ==
    <<IF ops[j].op = "open" THEN "shopen" ELSE "shclose", index, j>>

\* topotomo.Shutter._open, _close, first statement:
\*     self._device.DoSPECTextCommand("shopen %d" % (self.index))
\* The command reaches the hardware, or the connection raises.
TopoTomo_openCommand(j) ==
    /\ driver = "topotomo"
    /\ ops[j].pc = "scheduled"
    /\ \/ /\ hw' = Append(hw, Command(j))
          /\ ops' = [ops EXCEPT ![j].pc = "sent"]
       \/ /\ hw' = hw
          /\ ops' = [ops EXCEPT ![j].pc = "failed", ![j].err = "DevFailed"]
    /\ UNCHANGED <<driver, index, ctor, opened, OtherVars, restVars>>

\* topotomo.Shutter._open, _close, second statement:
\*     self._opened = True  (False in _close)
TopoTomo_openFlag(j) ==
    /\ ops[j].pc = "sent"
    /\ opened' = (IF ops[j].op = "open" THEN "True" ELSE "False")
    /\ ops' = [ops EXCEPT ![j].pc = "done"]
    /\ UNCHANGED <<driver, index, ctor, hw, OtherVars, restVars>>

Ended(j) == ops[j].pc \in {"done", "failed"}

\* handle.wait(): returns when the body has completed, raises what it raised.
Wait(j) ==
    /\ j # 0
    /\ ops[j].ret = "handle"
    /\ Ended(j)
    /\ ops' = [ops EXCEPT ![j].ret =
                 IF ops[j].pc = "failed" THEN "wait raised" ELSE "waited"]
    /\ UNCHANGED <<driver, index, ctor, opened, hw, OtherVars, restVars>>

\* topotomo.Shutter.__init__, the end of self.close().wait()
TopoTomo__init__Wait ==
    /\ ctor = "waiting"
    /\ Ended(0)
    /\ ops' = [ops EXCEPT ![0].ret =
                 IF ops[0].pc = "failed" THEN "wait raised" ELSE "waited"]
    /\ ctor' = (IF ops[0].pc = "failed" THEN ops[0].err ELSE "constructed")
    /\ UNCHANGED <<driver, index, opened, hw, OtherVars, restVars>>

\* is_open(): return self._opened
is_open == opened

InitShutter ==
    /\ kind = "shutter"
    /\ Shutter__init__
    /\ notes = <<>>
    /\ arg = None
    /\ NoThreads
    /\ NoMotor
    /\ driver \in {"base", "topotomo"}
    /\ index \in Indices
    /\ ctor = "new"
    /\ opened = None
    /\ hw = <<>>
    /\ ops = [j \in Ops |-> NoOp]
    /\ NoRest

Worker(j) ==
    \/ Shutter_openNotImplemented(j)
    \/ TopoTomo_openCommand(j)
    \/ TopoTomo_openFlag(j)

NextShutter ==
    \/ ShutterConstruct
    \/ TopoTomo__init__Wait
    \/ \E j \in Ops \ {0} :
          \/ Shutter_open(j)
          \/ Shutter_close(j)
          \/ Wait(j)
    \/ \E j \in Ops : Worker(j)

\* A worker that can take a step of a body takes it: the bodies take no lock
\* and wait for nothing.
SpecShutter ==
    /\ InitShutter
    /\ [][NextShutter]_vars
    /\ \A j \in Ops : WF_vars(Worker(j))

------------------------------------------------------------------------------
(* C8, C9 *)

Started(j) == ops[j].pc \in {"scheduled", "sent"}

C8_Handle ==
    \A j \in Ops \ {0} :
        /\ ops[j].pc # "idle" => ops[j].ret \in {"handle", "waited", "wait raised"}
        /\ ops[j].ret = "waited" => ops[j].pc = "done"
        /\ ops[j].ret = "wait raised" => ops[j].pc = "failed" /\ ops[j].err # None

C8_NeverAborted ==
    \A j \in Ops :
        Started(j) => (Started(j)' \/ Ended(j)')

\* C8: open() and close() return a handle at once; wait() on it returns only
\* when the body has completed and raises when the body raised; a scheduled
\* body is never aborted and ends in completion or failure.
C8_AsyncRunsToCompletion ==
    /\ []C8_Handle
    /\ [][C8_NeverAborted]_vars
    /\ \A j \in Ops : Started(j) ~> Ended(j)

\* wait() has returned from a completed open() and has raised the error of a
\* close() whose command failed.
C8_Witness ==
    \E j, k \in Ops \ {0} :
        /\ ops[j].op = "open" /\ ops[j].ret = "waited"
        /\ ops[k].op = "close" /\ ops[k].ret = "wait raised"

InHardwareSection == {j \in Ops : ops[j].pc = "sent"}

\* C9: of the bodies of open() and close() on one shutter, at most one is
\* between its hardware command and its flag update at any time.
C9_HardwareSectionsNeverOverlap ==
    Cardinality(InHardwareSection) <= 1

------------------------------------------------------------------------------
(* C19, C20 *)

Quiescent == ctor = "constructed" /\ \A j \in Ops : ~Started(j)

\* The value is_open() has to return after the commands the hardware received.
LastCommanded ==
    IF hw # <<>> /\ hw[Len(hw)][1] = "shopen" THEN "True" ELSE "False"

\* C19: on a constructed TopoTomo shutter with no operation in flight,
\* is_open() is the state the last hardware command asked for; it is False
\* right after construction.
C19_IsOpenAgreesWithHardware ==
    (driver = "topotomo" /\ Quiescent) => is_open = LastCommanded

\* C20: when wait() has returned from the only open() or close() issued, the
\* state is 'open' or 'closed' accordingly, and the state is 'n/a' only while
\* no operation has completed.
C20_StateTracksOperations ==
    /\ \A j \in Ops \ {0} :
           (ops[j].ret = "waited" /\ \A k \in Ops \ {0, j} : ops[k].pc = "idle") =>
               state = (IF ops[j].op = "open" THEN OPEN ELSE CLOSED)
    /\ state = NA => \A j \in Ops : ops[j].pc # "done"

------------------------------------------------------------------------------
(* LinearCalibration  (concert/devices/motors/base.py) *)

\* Quantities are exact fractions <<numerator, denominator>> in lowest terms
\* with a positive denominator.
Abs(n) == IF n < 0 THEN -n ELSE n

RECURSIVE GCD(_, _)
GCD(a, b) == IF b = 0 THEN a ELSE GCD(b, a % b)

Frac(n, d) ==
    LET g == GCD(Abs(n), Abs(d))
        sg == IF d < 0 THEN -1 ELSE 1
    IN  <<(sg * n) \div g, (sg * d) \div g>>

Plus(p, q) == Frac(p[1] * q[2] + q[1] * p[2], p[2] * q[2])
Minus(p, q) == Frac(p[1] * q[2] - q[1] * p[2], p[2] * q[2])
Times(p, q) == Frac(p[1] * q[1], p[2] * q[2])
Over(p, q) == Frac(p[1] * q[2], p[2] * q[1])

Fractions == {Frac(n, d) : n \in (-MaxNum)..MaxNum, d \in 1..MaxDen}

\* Faulty variant: the offset is added, as in to_steps.
LinearCalibration_to_userAddsOffset(steps_per_unit, offset, value_in_steps) ==
    Plus(Over(value_in_steps, steps_per_unit), offset)

\* LinearCalibration.to_user(value_in_steps):
\*     return value_in_steps / self._steps_per_unit - self._offset
LinearCalibration_to_user(steps_per_unit, offset, value_in_steps) ==
    Minus(Over(value_in_steps, steps_per_unit), offset)

\* LinearCalibration.to_steps(value):
\*     return (value + self._offset) * self._steps_per_unit
LinearCalibration_to_steps(steps_per_unit, offset, value) ==
    Times(Plus(value, offset), steps_per_unit)

BaseVars == <<lock, lockVars, devVars, position, jobs, shutterVars>>

CalToUser ==
    /\ Len(cpath) < 2
    /\ cval' = LinearCalibration_to_user(calib[1], calib[2], cval)
    /\ cpath' = Append(cpath, "to_user")
    /\ UNCHANGED <<cx, calib, moves, foc, BaseVars>>

CalToSteps ==
    /\ Len(cpath) < 2
    /\ cval' = LinearCalibration_to_steps(calib[1], calib[2], cval)
    /\ cpath' = Append(cpath, "to_steps")
    /\ UNCHANGED <<cx, calib, moves, foc, BaseVars>>

\* LinearCalibration(steps_per_unit, offset_in_steps) with any steps_per_unit
\* but zero, and a value to convert.
InitCalib ==
    /\ kind = "motor"
    /\ Motor__init__
    /\ notes = <<>>
    /\ arg = None
    /\ NoThreads
    /\ position = 0
    /\ jobs = [j \in Jobs |-> NoJob]
    /\ NoShutter
    /\ NoMoves
    /\ NoFocus
    /\ calib \in {c \in Fractions \X Fractions : c[1][1] # 0}
    /\ cx \in Fractions
    /\ cval = cx
    /\ cpath = <<>>

NextCalib ==
    \/ CalToUser
    \/ CalToSteps

SpecCalib == InitCalib /\ [][NextCalib]_vars

------------------------------------------------------------------------------
(* C15 *)

------------------------------------------------------------------------------
(* Motor: move  (concert/devices/motors/base.py) *)

Deltas == {-MaxPos, -1, 1, MaxPos}

\* CalibratedParameter.get(): value = super().get(); the raw position goes
\* through self._calibration.to_user(value).
CalibratedParameter_get ==
    LinearCalibration_to_user(<<calib[1], 1>>, <<calib[2], 1>>, <<position, 1>>)

\* Motor.get_position(): return self.get('position')
Motor_get_position == CalibratedParameter_get

\* Faulty variant: the position read is not added to delta.
Motor_moveAbsolute(m, delta) ==
    /\ moves[m].pc = "idle"
    /\ moves' = [moves EXCEPT ![m].pc = "queued", ![m].delta = delta,
                              ![m].new = <<delta, 1>>]
    /\ UNCHANGED <<lock, calib, position, jobs, devVars, lockVars, shutterVars,
                   calVars, foc>>

\* Motor.move(delta, blocking):
\*     new_position = self.get_position() + delta
\*     self.set_position(new_position, blocking)
\* The position is read in the caller, the set is handed to a worker.
Motor_move(m, delta) ==
    /\ moves[m].pc = "idle"
    /\ moves' = [moves EXCEPT ![m].pc = "queued", ![m].delta = delta,
                              ![m].new = Plus(Motor_get_position, <<delta, 1>>)]
    /\ UNCHANGED <<lock, calib, position, jobs, devVars, lockVars, shutterVars,
                   calVars, foc>>

\* CalibratedParameter.set(new_position) on the worker: to_steps, then
\* Parameter.set with the limiter.
MoveConvert(m) ==
    /\ moves[m].pc = "queued"
    /\ LET steps == LinearCalibration_to_steps(<<calib[1], 1>>, <<calib[2], 1>>,
                                               moves[m].new)
       IN  /\ steps[2] = 1
           /\ IF ~limiter(steps[1])
              THEN moves' = [moves EXCEPT ![m].pc = "failed", ![m].err = "LimitError"]
              ELSE moves' = [moves EXCEPT ![m].pc = "setter", ![m].target = steps[1]]
    /\ UNCHANGED <<lock, calib, position, jobs, devVars, lockVars, shutterVars,
                   calVars, foc>>

\* The setter takes the lock of the device and makes the transition to moving.
MoveAcquire(m) ==
    /\ moves[m].pc = "setter"
    /\ Device__enter__
    /\ Motor_set_state(MOVING, m)
    /\ moves' = [moves EXCEPT ![m].pc = "moving"]
    /\ UNCHANGED <<kind, arg, calib, position, jobs, lockVars, shutterVars,
                   calVars, foc>>

\* The raw setter of the driver moves the hardware.
MoveWrite(m) ==
    /\ moves[m].pc = "moving"
    /\ position' = Clamp(moves[m].target)
    /\ moves' = [moves EXCEPT ![m].pc = "written"]
    /\ UNCHANGED <<lock, calib, jobs, devVars, lockVars, shutterVars, calVars, foc>>

\* The last transition, to limit with HardlimitError or to standby, and the
\* release of the lock.
MoveSettle(m) ==
    /\ moves[m].pc = "written"
    /\ IF hard_position_limit_reached(moves[m].target)
       THEN /\ Motor_set_state(LIMIT, m)
            /\ moves' = [moves EXCEPT ![m].pc = "failed", ![m].err = "HardlimitError"]
       ELSE /\ Motor_set_state(STANDBY, m)
            /\ moves' = [moves EXCEPT ![m].pc = "done"]
    /\ Device__exit__(moves'[m].err)
    /\ UNCHANGED <<kind, arg, calib, position, jobs, lockVars, shutterVars,
                   calVars, foc>>

InitMove ==
    /\ kind = "motor"
    /\ Motor__init__
    /\ notes = <<>>
    /\ arg = None
    /\ NoThreads
    /\ calib \in Scales \X Offsets
    /\ position = 0
    /\ jobs = [j \in Jobs |-> NoJob]
    /\ NoShutter
    /\ NoCalib
    /\ NoFocus
    /\ NoMoves

NextMove ==
    \E m \in Movers :
        \/ \E delta \in Deltas : Motor_move(m, delta)
        \/ MoveConvert(m)
        \/ MoveAcquire(m)
        \/ MoveWrite(m)
        \/ MoveSettle(m)

SpecMove == InitMove /\ [][NextMove]_vars

------------------------------------------------------------------------------
(* C18 *)

\* The position in user units a motor at 0 steps has after moves by d1 and d2.
MovedBy(d1, d2) ==
    Plus(Plus(LinearCalibration_to_user(<<calib[1], 1>>, <<calib[2], 1>>, <<0, 1>>),
              <<d1, 1>>), <<d2, 1>>)

\* C18: when two concurrently issued move(d1) and move(d2) have both completed
\* without an error, the position is the initial position + d1 + d2.
C18_MovesAddUp ==
    (\A m \in Movers : moves[m].pc = "done") =>
        Motor_get_position = MovedBy(moves[1].delta, moves[2].delta)

AllMoved == \A m \in Movers : moves[m].pc = "done"

\* C18, as the code has it: the position is read outside the lock, so when
\* both moves have completed without an error the position is the initial
\* position + d1, + d2 or + d1 + d2; it is + d1 + d2 whenever one of the moves
\* read the position the other had written.
C18_MovesAddUpWhenSequential ==
    AllMoved =>
        /\ Motor_get_position \in {MovedBy(moves[1].delta, 0),
                                   MovedBy(0, moves[2].delta),
                                   MovedBy(moves[1].delta, moves[2].delta)}
        /\ (\E m \in Movers : moves[m].new = MovedBy(moves[1].delta, moves[2].delta))
              => Motor_get_position = MovedBy(moves[1].delta, moves[2].delta)

\* Two moves have completed, the second read what the first had written.
C18_Witness ==
    /\ AllMoved
    /\ calib = <<1, 1>>
    /\ moves[1].delta = 1
    /\ moves[2].delta = 1
    /\ moves[1].new = <<0, 1>>
    /\ moves[2].new = <<1, 1>>
    /\ Motor_get_position = <<1, 1>>

------------------------------------------------------------------------------
(* Focuser  (concert.processes.focus, exercised by tests/test_dummyfocusing.py) *)

MaxExp == 3
MaxPeak == 5

\* Focuser(motor, epsilon, feedback): the step magnitude the search stops
\* below; _position_eps of the tests, the distance a result may have.
Epsilon == <<1, 1>>
Tolerance == Times(<<2, 1>>, Epsilon)

\* DummyLimiter(lo, hi) of the soft-limit test; <<>> is limiter=None.
FocusLimits == <<-2, 2>>
Limiters == {<<>>, FocusLimits}

Travel == HardLimits[1]..HardLimits[2]
Peaks == (-MaxPeak)..MaxPeak
FocusSteps == {2 ^ k : k \in 0..MaxExp} \cup {-(2 ^ k) : k \in 0..MaxExp}
Tables == [Travel -> {0, 1}]

Magnitude(p) == <<Abs(p[1]), p[2]>>
Below(p, q) == p[1] * q[2] < q[1] * p[2]

\* Faulty variant: a limiter that permits every value.
DummyLimiterOpen(lim, value) == TRUE

\* Parameter.set: a limiter, if there is one, has to accept the value;
\* DummyLimiter(lo, hi) accepts lo <= value <= hi.
DummyLimiter(lim, value) ==
    lim = <<>> \/ (lim[1] <= value /\ value <= lim[2])

\* DummyGradientMeasure(position, max_position)(): a score with its single
\* maximum at max_position; a table stands for any other feedback callable.
Feedback ==
    IF foc.measure = "gradient" THEN -Abs(position - foc.P) ELSE foc.table[position]

\* Faulty variant: the direction is reversed and the step is kept.
TurnKeepsStep(step) == Minus(<<0, 1>>, step)

\* reverse direction and halve the step magnitude
Turn(step) == Over(Minus(<<0, 1>>, step), <<2, 1>>)

\* Faulty variant: the search stops two halvings early.
ConvergedEarly(step) == Below(Magnitude(step), Times(<<4, 1>>, Epsilon))

\* Terminate when the step magnitude falls below the configured epsilon.
Converged(step) == Below(Magnitude(step), Epsilon)

\* focus(step): @async, the search is scheduled and the caller gets a handle.
Focuser_focus(step) ==
    /\ foc.pc = "idle"
    /\ foc' = [foc EXCEPT !.pc = "measure", !.step = <<step, 1>>, !.step0 = step,
                          !.ret = "handle"]
    /\ UNCHANGED <<BaseVars, calib, calVars, moves>>

\* (a) the loop test and the score S0 at the current position.
FocusMeasure ==
    /\ foc.pc = "measure"
    /\ IF Converged(foc.step)
       THEN foc' = [foc EXCEPT !.pc = "done"]
       ELSE foc' = [foc EXCEPT !.pc = "move", !.S0 = Feedback]
    /\ UNCHANGED <<BaseVars, calib, calVars, moves>>

\* The position in steps motor.move(step) asks for: get_position() + step,
\* through to_user and to_steps of the calibration.  A step that is not below
\* Epsilon is a whole number of units.
FocusTarget ==
    LET user == (position \div calib[1]) - calib[2]
    IN  (user + foc.step[1] + calib[2]) * calib[1]

\* Faulty variant: the HardlimitError of the move ends the search.
FocusMoveRaises ==
    /\ foc.pc = "move"
    /\ foc.step[2] = 1
    /\ IF ~DummyLimiter(foc.lim, FocusTarget)
       THEN /\ foc' = [foc EXCEPT !.pc = "compare", !.hit = "LimitError",
                                  !.seen = @ \cup {"LimitError"}]
            /\ UNCHANGED <<position, state>>
       ELSE /\ position' = Clamp(FocusTarget)
            /\ IF hard_position_limit_reached(FocusTarget)
               THEN /\ state' = LIMIT
                    /\ foc' = [foc EXCEPT !.pc = "failed", !.hit = "HardlimitError",
                                          !.seen = @ \cup {"HardlimitError"}]
               ELSE /\ state' = STANDBY
                    /\ foc' = [foc EXCEPT !.pc = "compare", !.hit = None]
    /\ UNCHANGED <<lock, lockVars, kind, notes, arg, calib, jobs, shutterVars,
                   calVars, moves>>

\* (b) motor.move(step, blocking=True).  A value the limiter rejects raises
\* LimitError and the motor stays; beyond the travel range the motor stops at
\* the limit with HardlimitError.  Both errors are caught by the search.
FocusMove ==
    /\ foc.pc = "move"
    /\ foc.step[2] = 1
    /\ IF ~DummyLimiter(foc.lim, FocusTarget)
       THEN /\ foc' = [foc EXCEPT !.pc = "compare", !.hit = "LimitError",
                                  !.seen = @ \cup {"LimitError"}]
            /\ UNCHANGED <<position, state>>
       ELSE /\ position' = Clamp(FocusTarget)
            /\ IF hard_position_limit_reached(FocusTarget)
               THEN /\ state' = LIMIT
                    /\ foc' = [foc EXCEPT !.pc = "compare", !.hit = "HardlimitError",
                                          !.seen = @ \cup {"HardlimitError"}]
               ELSE /\ state' = STANDBY
                    /\ foc' = [foc EXCEPT !.pc = "compare", !.hit = None]
    /\ UNCHANGED <<lock, lockVars, kind, notes, arg, calib, jobs, shutterVars,
                   calVars, moves>>

\* (c), (d) the score S1 after the move: a better score keeps direction and
\* step, a score that is no better, or a limit, reverses and halves.
FocusCompare ==
    /\ foc.pc = "compare"
    /\ IF foc.hit = None /\ Feedback > foc.S0
       THEN foc' = [foc EXCEPT !.pc = "measure"]
       ELSE foc' = [foc EXCEPT !.pc = "measure", !.step = Turn(foc.step),
                               !.turns = @ \cup {IF foc.hit # None THEN foc.hit
                                                 ELSE IF Feedback = foc.S0 THEN "tie"
                                                 ELSE "worse"}]
    /\ UNCHANGED <<BaseVars, calib, calVars, moves>>

\* handle.wait(): returns when the search has ended, raises what it raised.
FocusWait ==
    /\ foc.pc \in {"done", "failed"}
    /\ foc.ret = "handle"
    /\ foc' = [foc EXCEPT !.ret = IF foc.pc = "failed" THEN "wait raised" ELSE "waited"]
    /\ UNCHANGED <<BaseVars, calib, calVars, moves>>

\* setUp of the tests: DummyMotor(limiter, position) with the calibration
\* LinearCalibration(1, 0), a feedback and Focuser(motor, epsilon, feedback).
InitFocus ==
    /\ kind = "motor"
    /\ Motor__init__
    /\ notes = <<>>
    /\ arg = None
    /\ NoThreads
    /\ calib = <<1, 0>>
    /\ jobs = [j \in Jobs |-> NoJob]
    /\ NoShutter
    /\ NoCalib
    /\ NoMoves
    /\ \E lim \in Limiters, measure \in {"gradient", "table"} :
          /\ position \in {x \in Travel : DummyLimiter(lim, x)}
          /\ \E P \in (IF measure = "gradient" THEN Peaks ELSE {0}),
                table \in (IF measure = "table" THEN Tables ELSE {[x \in Travel |-> 0]}) :
                foc = [pc |-> "idle", lim |-> lim, measure |-> measure, P |-> P,
                       table |-> table, step |-> <<0, 1>>, step0 |-> 0, S0 |-> 0,
                       hit |-> None, seen |-> {}, turns |-> {}, ret |-> "no"]

FocusStep ==
    \/ FocusMeasure
    \/ FocusMove
    \/ FocusCompare

NextFocus ==
    \/ \E step \in FocusSteps : Focuser_focus(step)
    \/ FocusMeasure
    \/ FocusMove
    \/ FocusCompare
    \/ FocusWait

\* The worker that runs the search is never starved.
SpecFocus ==
    /\ InitFocus
    /\ [][NextFocus]_vars
    /\ WF_vars(FocusStep)

------------------------------------------------------------------------------
(* C11 - C14 *)

Returned == foc.ret = "waited"
Near(x) == ~Below(Tolerance, <<Abs(position - x), 1>>)
Within(x) == foc.lim = <<>> \/ (foc.lim[1] <= x /\ x <= foc.lim[2])
Beyond(x) == foc.lim # <<>> /\ (x < foc.lim[1] \/ x > foc.lim[2])

\* The initial step is at least twice epsilon: after one reversal the search
\* still moves.
StepSurvivesReversal ==
    ~Below(<<Abs(foc.step0), 1>>, Times(<<2, 1>>, Epsilon))

\* C11: with a single maximum at P inside the range the motor can travel,
\* for every start and every initial step, when focus(step).wait() has
\* returned the motor is within the tolerance of P.
C11_ConvergesOnMaximum ==
    (Returned /\ foc.measure = "gradient" /\ foc.P \in Travel /\ Within(foc.P)) =>
        Near(foc.P)

\* C11, for the steps the search can recover from: as above, for every
\* initial step of at least twice epsilon.
C11_ConvergesWithStepAboveEpsilon ==
    (Returned /\ foc.measure = "gradient" /\ foc.P \in Travel /\ Within(foc.P)
       /\ StepSurvivesReversal) =>
        Near(foc.P)

\* The search with a step larger than the travel range has run into a hard
\* limit and ended one epsilon from a maximum inside the range.
C11_Witness ==
    /\ Returned
    /\ foc.measure = "gradient" /\ foc.lim = <<>>
    /\ foc.step0 = 8
    /\ foc.P = 1
    /\ "HardlimitError" \in foc.seen
    /\ Abs(position - foc.P) = 1

HardLimitBeyond ==
    IF foc.P > HardLimits[2] THEN HardLimits[2] ELSE HardLimits[1]

\* C12: with the maximum beyond the upper (lower) hard limit, for every
\* initial step, focus never raises and when wait() has returned the motor is
\* at the upper (lower) hard limit.
C12_ClampsAtHardLimit ==
    (foc.measure = "gradient" /\ foc.lim = <<>> /\ foc.P \notin Travel) =>
        /\ foc.pc # "failed"
        /\ foc.ret # "wait raised"
        /\ Returned => Near(HardLimitBeyond)

\* C12, for the steps the search can recover from: as above, for every
\* initial step of at least twice epsilon.
C12_ClampsWithStepAboveEpsilon ==
    (foc.measure = "gradient" /\ foc.lim = <<>> /\ foc.P \notin Travel) =>
        /\ foc.pc # "failed"
        /\ foc.ret # "wait raised"
        /\ (Returned /\ StepSurvivesReversal) => Near(HardLimitBeyond)

\* A search has absorbed a HardlimitError and ended at the upper hard limit.
C12_Witness ==
    /\ Returned
    /\ foc.measure = "gradient" /\ foc.lim = <<>>
    /\ foc.P = 5
    /\ foc.step0 = -8
    /\ "HardlimitError" \in foc.turns
    /\ position = HardLimits[2]

SoftLimitBeyond ==
    IF foc.P > foc.lim[2] THEN foc.lim[2] ELSE foc.lim[1]

C13_NeverRaisesNorLeaves ==
    /\ foc.pc # "failed"
    /\ foc.ret # "wait raised"
    /\ Within(position)

C13_RejectedMoveStays ==
    (foc.pc = "move" /\ foc'.hit = "LimitError") =>
        (position' = position /\ foc'.pc = "compare")

\* C13: with a soft limiter [lo, hi], a start inside it and the maximum above
\* hi (below lo), focus never raises and when wait() has returned the motor is
\* at hi (lo); a move the limiter rejects leaves the motor where it was and
\* the search goes on.
C13_SoftLimitReflects ==
    /\ []((foc.measure = "gradient" /\ Beyond(foc.P)) =>
            (C13_NeverRaisesNorLeaves /\ (Returned => Near(SoftLimitBeyond))))
    /\ [][C13_RejectedMoveStays]_vars

\* C13, for the steps the search can recover from: as above, the motor is at
\* hi (lo) for every initial step of at least twice epsilon.
C13_ReflectsWithStepAboveEpsilon ==
    /\ []((foc.measure = "gradient" /\ Beyond(foc.P)) =>
            (C13_NeverRaisesNorLeaves
             /\ ((Returned /\ StepSurvivesReversal) => Near(SoftLimitBeyond))))
    /\ [][C13_RejectedMoveStays]_vars

\* A search has had a move rejected by the limiter and ended at hi.
C13_Witness ==
    /\ Returned
    /\ foc.measure = "gradient" /\ foc.lim = FocusLimits
    /\ foc.P = 4
    /\ foc.step0 = -2
    /\ "LimitError" \in foc.turns
    /\ position = FocusLimits[2]

C14_ReversalHalves ==
    (foc.pc = "compare" /\ foc'.step # foc.step) =>
        (foc'.step = Over(Minus(<<0, 1>>, foc.step), <<2, 1>>))

====
